---- MODULE Spec2Model ----
(***************************************************************************)
(* The block importer of crates/services/sync/src/import.rs: one call of   *)
(* Import::import is one cycle: process_range, launch_stream over the      *)
(* range, failed_to_process of the suffix, then the wait for a wake or the *)
(* shutdown.  The stream of launch_stream is modelled combinator by        *)
(* combinator (buffered, scan_none_or_err, map, buffered, scan_none_or_err,*)
(* take_until, then, scan_err, fold) in the order one poll of the task     *)
(* visits them.  The ports are the environment: each call is answered by   *)
(* any of the answers its contract allows, and the answers of the calls in *)
(* flight arrive in any order.                                             *)
(***************************************************************************)
EXTENDS Integers, Sequences, FiniteSets, TLC

\* ------------------------------------------------------------------ bounds
\* Highest height a peer advertises.
MaxTip == 3
\* Largest value of either request limit of Config.
MaxRequests == 2
\* Most spawned tasks of earlier cycles still running when a cycle of a
\* spawning variant starts.
MaxDetached == 1
\* Highest height a peer advertises in the runs of the variants.
MaxTipVariant == 2

VARIABLES
    observed_tip,   \* State.observed_tip
    committed_tip,  \* State.committed_tip
    in_progress,    \* State.in_progress: <<start, end>> or None
    failed,         \* State.failed: set of <<start, end>>
    notify,         \* the Notify's stored permits (tokio keeps at most one)
    shutdown,       \* the StateWatcher has left the started state
    params,         \* Config
    pc,             \* position of the import task
    range,          \* the range of the running cycle, or None
    outcome,        \* per height of the cycle: how far its port calls got
    nextH,          \* next height stream::iter(range) yields
    hq,             \* in-progress queue of the header Buffered; in the
                    \* spawning variants, the tasks that outlived their stream
    tq,             \* in-progress queue of the block Buffered; in
                    \* launch_stream_v4, the tasks spawned by the running loop
    scan1,          \* the header scan_none_or_err: "open" or "closed"
    exec,           \* height whose execute_and_commit is in flight, or 0
    count,          \* fold accumulator: blocks executed
    result,         \* fold accumulator: Ok or the error
    ret,            \* what the last call of import returned
    tip0,           \* committed_tip when the cycle started
    commits,        \* heights given to State::commit in this cycle, in order
    execs,          \* heights given to the executor in this cycle, in order
    failedCalls     \* ranges given to failed_to_process in this cycle

vars == <<observed_tip, committed_tip, in_progress, failed, notify, shutdown,
          params, pc, range, outcome, nextH, hq, tq, scan1, exec, count,
          result, ret, tip0, commits, execs, failedCalls>>

stateVars == <<observed_tip, committed_tip, in_progress, failed>>
histVars == <<tip0, commits, execs, failedCalls>>
streamVars == <<nextH, hq, tq, scan1, exec, count, result>>

\* ------------------------------------------------------------------ values
None == <<>>
Ok == [tag |-> "ok", h |-> 0, e |-> "-"]
Err(kind, h) == [tag |-> "err", h |-> h, e |-> kind]
Some(h) == [tag |-> "some", h |-> h, e |-> "-"]
NoneItem == [tag |-> "none", h |-> 0, e |-> "-"]
\* What a stream yields when it has ended.
EndItem == [tag |-> "end", h |-> 0, e |-> "-"]
IsErr(r) == r.tag = "err"

Heights == 1..MaxTip

RangeLen(r) == IF r[2] >= r[1] THEN r[2] - r[1] + 1 ELSE 0
InRange(h, r) == r[1] <= h /\ h <= r[2]
Remove(q, i) == SubSeq(q, 1, i - 1) \o SubSeq(q, i + 1, Len(q))
Elems(q) == {q[i] : i \in 1..Len(q)}

\* How a height of the cycle ended, or how far it is: "unasked" (no header
\* request yet), "pending" (every call so far succeeded), "assembled" (its
\* sealed block is built), "good" (executed and committed), or the port call
\* that did not succeed.
NoneOutcomes == {"hdrNone", "hdrMismatch", "sealFalse", "txNone", "txBad"}
FetchErrOutcomes == {"hdrErr", "sealErr", "daErr", "txErr"}
BadOutcomes == NoneOutcomes \cup FetchErrOutcomes \cup {"execErr"}

\* ------------------------------------------------------------------ State
\* State::process_range: the heights above the committed tip up to the
\* observed tip, or None when there are none.
process_range(ct, ot) == IF ct + 1 <= ot THEN <<ct + 1, ot>> ELSE None

\* A failed range with the height h cleared out of it.
ClearHeight(r, h) ==
    IF ~InRange(h, r) THEN {r}
    ELSE (IF r[1] <= h - 1 THEN {<<r[1], h - 1>>} ELSE {})
         \cup (IF h + 1 <= r[2] THEN {<<h + 1, r[2]>>} ELSE {})

\* State::commit: the committed tip becomes h and h leaves the failed ranges.
commit(h) ==
    /\ committed_tip' = h
    /\ failed' = UNION {ClearHeight(r, h) : r \in failed}
    /\ UNCHANGED <<observed_tip, in_progress>>

\* State::failed_to_process: the range is recorded, nothing else changes.
failed_to_process(F, r) == F \cup {r}

\* ------------------------------------------------------------------ ports
\* The answers a port call can give.
HeaderAnswers == {"err", "none", "mismatch", "header"}
SealAnswers == {"err", "false", "true"}
DaAnswers == {"err", "ok"}
TxAnswers == {"err", "none", "bad", "txs"}
ExecAnswers == {"err", "ok"}

\* PeerToPeerPort::get_sealed_block_header: an error, no header, or a header
\* carrying the height the peer advertises for it.
get_sealed_block_header(h, ans) ==
    CASE ans = "err" -> Err("hdrErr", h)
      [] ans = "none" -> NoneItem
      [] ans = "mismatch" -> Some(h + 1)
      [] OTHER -> Some(h)

\* Block::try_from_executed: TRUE when the block is assembled.
try_from_executed(txs) == txs = "txs"

\* ------------------------------------------------------------------ helpers
\* A validation that accepts a header of any height.
validate_header_height_any(expected_height, header) == TRUE

\* validate_header_height
validate_header_height(expected_height, header) == header.h = expected_height

\* The future get_header_range makes for one height, when the port answers.
get_header_range(height, ans) ==
    LET r == get_sealed_block_header(height, ans) IN
    IF IsErr(r) THEN r
    ELSE IF r.tag = "none" THEN NoneItem
    ELSE IF validate_header_height(height, r) THEN r ELSE NoneItem

\* scan_none_or_err with a None reported as an error instead of closing the
\* stream quietly.
scan_none_as_err(err, item) ==
    IF err THEN [out |-> EndItem, err |-> err]
    ELSE IF item.tag = "end" THEN [out |-> EndItem, err |-> err]
    ELSE IF item.tag = "err" THEN [out |-> item, err |-> TRUE]
    ELSE IF item.tag = "none"
    THEN [out |-> [tag |-> "err", h |-> 0, e |-> "none"], err |-> TRUE]
    ELSE [out |-> item, err |-> FALSE]

\* ScanNoneErr::scan_none_or_err, one step of the unfold: from the error
\* flag and the inner stream's next item (EndItem: it has ended) to the item
\* yielded (EndItem: the stream closes) and the new flag.
scan_none_or_err(err, item) ==
    IF err THEN [out |-> EndItem, err |-> err]
    ELSE IF item.tag = "end" THEN [out |-> EndItem, err |-> err]
    ELSE IF item.tag = "err" THEN [out |-> item, err |-> TRUE]
    ELSE IF item.tag = "none" THEN [out |-> EndItem, err |-> FALSE]
    ELSE [out |-> item, err |-> FALSE]

\* scan_err that never sets its flag: the stream goes on after an error.
scan_err_continue(err, item) ==
    IF item.tag = "end" THEN [out |-> EndItem, err |-> err]
    ELSE [out |-> item, err |-> FALSE]

\* ScanErr::scan_err, one step of the unfold.
scan_err(err, item) ==
    IF err THEN [out |-> EndItem, err |-> err]
    ELSE IF item.tag = "end" THEN [out |-> EndItem, err |-> err]
    ELSE [out |-> item, err |-> item.tag = "err"]

\* fold whose error arm keeps the earlier result.
fold_drop_err(acc, item) ==
    IF item.tag = "err" THEN [count |-> acc.count, result |-> acc.result]
    ELSE [count |-> acc.count + 1, result |-> acc.result]

\* fold counting an error as a block executed.
fold_counts_err(acc, item) ==
    IF item.tag = "err" THEN [count |-> acc.count + 1, result |-> item]
    ELSE [count |-> acc.count + 1, result |-> acc.result]

\* The closure of fold: an Ok item adds one to the count and keeps the
\* result, an error keeps the count and becomes the result.
fold(acc, item) ==
    IF item.tag = "err" THEN [count |-> acc.count, result |-> item]
    ELSE [count |-> acc.count + 1, result |-> acc.result]

\* buffer_unordered: any completed future is released.
buffer_unordered_next(q) == {i \in 1..Len(q) : q[i].st = "ready"}

\* A buffer that releases a completed error ahead of the results before it.
buffered_next_error_first(q) ==
    IF q # <<>> /\ q[1].st = "ready" THEN {1}
    ELSE {i \in 1..Len(q) : q[i].st = "ready" /\ q[i].res.tag = "err"}

\* Buffered releases its results in the order the futures were taken in: the
\* positions of the queue whose result can be released now.
buffered_next(q) == IF q # <<>> /\ q[1].st = "ready" THEN {1} ELSE {}

\* A closure that goes on to await_da_height when the seal is invalid.
block_future_start_ignores_seal(item, seal) ==
    IF item.tag = "err" THEN [h |-> item.h, st |-> "ready", res |-> item]
    ELSE IF seal = "err"
    THEN [h |-> item.h, st |-> "ready", res |-> Err("sealErr", item.h)]
    ELSE [h |-> item.h, st |-> "da", res |-> NoneItem]

\* The future of the map closure of launch_stream, from its first poll to
\* its first suspension: an error of the header stage passes through;
\* otherwise check_sealed_header answers seal, and on true await_da_height
\* is called.
block_future_start(item, seal) ==
    IF item.tag = "err" THEN [h |-> item.h, st |-> "ready", res |-> item]
    ELSE IF seal = "err"
    THEN [h |-> item.h, st |-> "ready", res |-> Err("sealErr", item.h)]
    ELSE IF seal = "false"
    THEN [h |-> item.h, st |-> "ready", res |-> NoneItem]
    ELSE [h |-> item.h, st |-> "da", res |-> NoneItem]

\* The same future when await_da_height answers: an error ends it, otherwise
\* get_transactions is called.
block_future_da(ent, da) ==
    IF da = "ok"
    THEN [ent EXCEPT !.st = "tx"]
    ELSE [ent EXCEPT !.st = "ready", !.res = Err("daErr", ent.h)]

\* get_transactions_on_block when get_transactions answers txs.
get_transactions_on_block(h, txs) ==
    IF txs = "err" THEN Err("txErr", h)
    ELSE IF txs = "none" THEN NoneItem
    ELSE IF try_from_executed(txs) THEN Some(h) ELSE NoneItem

\* The same future when get_transactions answers.
block_future_tx(ent, txs) ==
    [ent EXCEPT !.st = "ready", !.res = get_transactions_on_block(ent.h, txs)]

\* execute_and_commit: the executor's result r is returned as it is.
execute_and_commit(h, ans) == IF ans = "ok" THEN Ok ELSE Err("execErr", h)

\* execute_and_commit committing whatever the executor returned.
commits_block_always(r) == TRUE

\* execute_and_commit: State::commit is called exactly when r.is_ok().
commits_block(r) == ~IsErr(r)

\* ------------------------------------------------------------------ Init
Init ==
    /\ committed_tip = 0
    /\ observed_tip = 0
    /\ in_progress = None
    /\ failed = {}
    /\ notify = 0
    /\ shutdown = FALSE
    /\ params \in [max_get_header_requests : 1..MaxRequests,
                   max_get_txns_requests : 1..MaxRequests]
    /\ pc = "idle"
    /\ range = None
    /\ outcome = [h \in Heights |-> "unasked"]
    /\ nextH = 0
    /\ hq = <<>>
    /\ tq = <<>>
    /\ scan1 = "closed"
    /\ exec = 0
    /\ count = 0
    /\ result = Ok
    /\ ret = "none"
    /\ tip0 = 0
    /\ commits = <<>>
    /\ execs = <<>>
    /\ failedCalls = <<>>

\* ------------------------------------------------------------------ import
\* An iteration that starts one height below the range.
stream_iter_below(r) == r[1] - 1

\* stream::iter(range): the first height it yields.
stream_iter(r) == r[1]

\* Import::import calls import_inner, which asks State for the range: with a
\* range the stream is launched over it, without one the call goes to the
\* wait.
ImportStart ==
    /\ pc = "idle"
    /\ tip0' = committed_tip
    /\ commits' = <<>>
    /\ execs' = <<>>
    /\ failedCalls' = <<>>
    /\ ret' = "none"
    /\ outcome' = [h \in Heights |-> "unasked"]
    /\ LET r == process_range(committed_tip, observed_tip) IN
       /\ range' = r
       /\ IF r = None
          THEN /\ pc' = "wait"
               /\ scan1' = "closed"
               /\ nextH' = 0
               /\ UNCHANGED in_progress
          ELSE /\ pc' = "stream"
               /\ scan1' = "open"
               /\ nextH' = stream_iter(r)
               /\ in_progress' = r
    /\ hq' = <<>>
    /\ tq' = <<>>
    /\ exec' = 0
    /\ count' = 0
    /\ result' = Ok
    /\ UNCHANGED <<observed_tip, committed_tip, failed, notify, shutdown, params>>

\* ------------------------------------------------------------------ launch_stream
\* launch_stream returns: the stream and both of its queues are dropped.
Dropped ==
    /\ pc' = "returned"
    /\ nextH' = 0
    /\ hq' = <<>>
    /\ tq' = <<>>
    /\ scan1' = "closed"

\* A stream without take_until.
take_until_never(stopped) == TRUE

\* take_until: the stream is polled only while the shutdown future is pending.
take_until(stopped) == ~stopped

\* A stage that does not wait for the execution in flight.
then_concurrent(e) == TRUE

\* then: the stream above it is polled only while no execute_and_commit
\* future is in flight; so are the futures of both buffers.
then_idle(e) == e = 0

Polling == pc = "stream" /\ then_idle(exec) /\ take_until(shutdown)

\* The block Buffered pulls from the header stream while it has room.
BlockRoom == Len(tq) < params.max_get_txns_requests

\* A header buffer that takes one future more than its limit.
HeaderRoomOffByOne == Len(hq) <= params.max_get_header_requests

\* The header Buffered takes a new future while it has room.
HeaderRoom == Len(hq) < params.max_get_header_requests

\* A header stream that ends only when its scan has closed it.
HeadersDoneClosedOnly == scan1 = "closed"

\* The stream below the block Buffered has ended.
HeadersDone == scan1 = "closed" \/ (hq = <<>> /\ nextH > range[2])

CanIssueHeader ==
    /\ Polling /\ scan1 = "open" /\ BlockRoom
    /\ HeaderRoom /\ nextH <= range[2]

CanPullHeader ==
    /\ Polling /\ scan1 = "open" /\ BlockRoom
    /\ ~CanIssueHeader
    /\ buffered_next(hq) # {}

\* buffered(max_get_header_requests): the next future of get_header_range is
\* taken into the queue and polled, which calls get_sealed_block_header.
IssueHeader ==
    /\ CanIssueHeader
    /\ hq' = Append(hq, [h |-> nextH, st |-> "pending", res |-> NoneItem])
    /\ nextH' = nextH + 1
    /\ outcome' = [outcome EXCEPT ![nextH] = "pending"]
    /\ UNCHANGED <<stateVars, histVars, notify, shutdown, params, pc, range,
                   tq, scan1, exec, count, result, ret>>

\* get_sealed_block_header answers one of the requests in flight, in any
\* order, and the future of that height completes.
HeaderResponse ==
    /\ Polling /\ scan1 = "open" /\ BlockRoom
    /\ \E i \in 1..Len(hq), ans \in HeaderAnswers :
          /\ hq[i].st = "pending"
          /\ hq' = [hq EXCEPT ![i] = [h |-> hq[i].h, st |-> "ready",
                                      res |-> get_header_range(hq[i].h, ans)]]
          /\ outcome' = [outcome EXCEPT ![hq[i].h] =
                            CASE ans = "err" -> "hdrErr"
                              [] ans = "none" -> "hdrNone"
                              [] ans = "mismatch" -> "hdrMismatch"
                              [] OTHER -> @]
    /\ UNCHANGED <<stateVars, histVars, notify, shutdown, params, pc, range,
                   nextH, tq, scan1, exec, count, result, ret>>

\* The header queue releases a result, which passes scan_none_or_err and the
\* map closure; the closure's future enters the block queue and is polled,
\* which calls check_sealed_header.
PullHeader ==
    /\ CanPullHeader
    /\ \E i \in buffered_next(hq) :
       LET s == scan_none_or_err(FALSE, hq[i].res) IN
       /\ hq' = Remove(hq, i)
       /\ scan1' = IF s.err \/ s.out.tag = "end" THEN "closed" ELSE "open"
       /\ IF s.out.tag = "some"
          THEN \E seal \in SealAnswers :
                  /\ tq' = Append(tq, block_future_start(s.out, seal))
                  /\ outcome' = [outcome EXCEPT ![s.out.h] =
                                    CASE seal = "err" -> "sealErr"
                                      [] seal = "false" -> "sealFalse"
                                      [] OTHER -> @]
          ELSE /\ tq' = IF s.out.tag = "end"
                        THEN tq
                        ELSE Append(tq, block_future_start(s.out, "true"))
               /\ UNCHANGED outcome
    /\ UNCHANGED <<stateVars, histVars, notify, shutdown, params, pc, range,
                   nextH, exec, count, result, ret>>

\* await_da_height or get_transactions answers one of the block futures, in
\* any order.
BlockResponse ==
    /\ Polling
    /\ \E j \in 1..Len(tq) :
          \/ /\ tq[j].st = "da"
             /\ \E da \in DaAnswers :
                   /\ tq' = [tq EXCEPT ![j] = block_future_da(tq[j], da)]
                   /\ outcome' = [outcome EXCEPT ![tq[j].h] =
                                     IF da = "err" THEN "daErr" ELSE @]
          \/ /\ tq[j].st = "tx"
             /\ \E txs \in TxAnswers :
                   /\ tq' = [tq EXCEPT ![j] = block_future_tx(tq[j], txs)]
                   /\ outcome' = [outcome EXCEPT ![tq[j].h] =
                                     CASE txs = "err" -> "txErr"
                                       [] txs = "none" -> "txNone"
                                       [] txs = "bad" -> "txBad"
                                       [] OTHER -> "assembled"]
    /\ UNCHANGED <<stateVars, histVars, notify, shutdown, params, pc, range,
                   nextH, hq, scan1, exec, count, result, ret>>

\* The block queue releases a result, which passes scan_none_or_err and
\* take_until: a None closes the stream, an error passes then, scan_err and
\* fold and closes it, a block starts execute_and_commit.
PullBlock ==
    /\ Polling
    /\ ~CanIssueHeader /\ ~CanPullHeader
    /\ \E j \in buffered_next(tq) :
       LET s == scan_none_or_err(FALSE, tq[j].res)
           e == scan_err(FALSE, s.out)
           acc == fold([count |-> count, result |-> result], e.out)
       IN IF s.out.tag = "end"
          THEN /\ Dropped
               /\ UNCHANGED <<exec, execs, count, result>>
          ELSE IF s.out.tag = "err"
          THEN /\ Dropped
               /\ count' = acc.count
               /\ result' = acc.result
               /\ UNCHANGED <<exec, execs>>
          ELSE /\ tq' = Remove(tq, j)
               /\ exec' = s.out.h
               /\ execs' = Append(execs, s.out.h)
               /\ UNCHANGED <<pc, count, result, nextH, hq, scan1>>
    /\ UNCHANGED <<stateVars, tip0, commits, failedCalls, notify, shutdown,
                   params, range, outcome, ret>>

\* The executor answers and execute_and_commit returns: on Ok the height is
\* committed; the result passes scan_err and fold, and an error closes the
\* stream.
ExecDone ==
    /\ pc = "stream" /\ exec # 0
    /\ \E ans \in ExecAnswers :
       LET r == execute_and_commit(exec, ans)
           e == scan_err(FALSE, r)
           acc == fold([count |-> count, result |-> result], e.out)
       IN /\ IF commits_block(r)
             THEN commit(exec) /\ commits' = Append(commits, exec)
             ELSE UNCHANGED <<stateVars, commits>>
          /\ outcome' = [outcome EXCEPT ![exec] =
                            IF ans = "ok" THEN "good" ELSE "execErr"]
          /\ count' = acc.count
          /\ result' = acc.result
          /\ IF e.err THEN Dropped ELSE UNCHANGED <<pc, nextH, hq, tq, scan1>>
    /\ exec' = 0
    /\ UNCHANGED <<tip0, execs, failedCalls, notify, shutdown, params, range,
                   ret>>

\* The range is exhausted and both queues have drained: the stream ends.
StreamEnd ==
    /\ Polling
    /\ tq = <<>> /\ HeadersDone
    /\ Dropped
    /\ UNCHANGED <<stateVars, histVars, notify, shutdown, params, range,
                   outcome, exec, count, result, ret>>

\* take_until: the shutdown future is ready when the stream is next polled.
ShutdownEnd ==
    /\ pc = "stream" /\ then_idle(exec) /\ ~take_until(shutdown)
    /\ Dropped
    /\ UNCHANGED <<stateVars, histVars, notify, shutdown, params, range,
                   outcome, exec, count, result, ret>>

\* ------------------------------------------------------------------ import_inner
\* The suffix starting one height too high.
failed_suffix_off_by_one(r, c) ==
    IF c < RangeLen(r) THEN <<r[1] + c + 1, r[2]>> ELSE None

\* The whole range recorded, whatever was committed of it.
failed_suffix_whole(r, c) == IF c < RangeLen(r) THEN r ELSE None

\* The suffix recorded also when the whole range was committed.
failed_suffix_le(r, c) ==
    IF c <= RangeLen(r) THEN <<r[1] + c, r[2]>> ELSE None

\* The heights import_inner marks as failed, or None: the part of the range
\* from the committed count on, when the count is short of the range.
failed_suffix(r, c) ==
    IF c < RangeLen(r) THEN <<r[1] + c, r[2]>> ELSE None

\* An import_inner that drops the result of the stream.
returns_early_never(r) == FALSE

\* result? in import_inner and the ? on it in import: an error is returned
\* at once.
returns_early(r) == IsErr(r)

\* import_inner after launch_stream has returned (count, result): the suffix
\* is recorded, then an error is returned by import, and otherwise import
\* goes on to wait_for_notify_or_shutdown.
ImportInnerTail ==
    /\ pc = "returned"
    /\ LET fr == failed_suffix(range, count) IN
       IF fr # None
       THEN /\ failed' = failed_to_process(failed, fr)
            /\ failedCalls' = Append(failedCalls, fr)
       ELSE UNCHANGED <<failed, failedCalls>>
    /\ IF returns_early(result)
       THEN pc' = "idle" /\ ret' = "err"
       ELSE pc' = "wait" /\ ret' = ret
    /\ UNCHANGED <<observed_tip, committed_tip, in_progress, tip0, commits,
                   execs, notify, shutdown, params, range, outcome, streamVars>>

\* A select that returns the right side without waiting for it.
select_eager(n, s) == IF n THEN "left" ELSE "right"

\* A select that never polls its left side.
select_right_only(n, s) == IF s THEN "right" ELSE "pending"

\* futures::future::select(n, s) as wait_for_notify_or_shutdown uses it: the
\* left future is polled first, the right one only when the left is pending;
\* n and s say which of the two are ready.
select(n, s) == IF n THEN "left" ELSE IF s THEN "right" ELSE "pending"

\* wait_for_notify_or_shutdown: the select of the notification and the
\* shutdown; a ready notification has consumed a stored permit, and the
\* function returns true exactly when the select returned the left side.
WaitReturn ==
    /\ pc = "wait"
    /\ LET r == select(notify > 0, shutdown) IN
       /\ r # "pending"
       /\ IF r = "left"
          THEN ret' = "true" /\ notify' = notify - 1
          ELSE ret' = "false" /\ notify' = notify
    /\ pc' = "idle"
    /\ UNCHANGED <<stateVars, histVars, shutdown, params, range, outcome,
                   streamVars>>

\* ------------------------------------------------------------------ environment
\* A Notify that counts its permits, up to two.
notify_one_counting(permits) == IF permits < 2 THEN permits + 1 ELSE permits

\* Notify::notify_one with no task waiting: one permit is stored, and a
\* permit already stored is not added to.
notify_one(permits) == 1

\* Import::notify_one.
NotifyOne ==
    /\ notify' = notify_one(notify)
    /\ UNCHANGED <<stateVars, histVars, shutdown, params, pc, range, outcome,
                   streamVars, ret>>

\* The supervisor leaves the started state.
FireShutdown ==
    /\ ~shutdown
    /\ shutdown' = TRUE
    /\ UNCHANGED <<stateVars, histVars, notify, params, pc, range, outcome,
                   streamVars, ret>>

\* The sync task observes a higher tip.
Observe ==
    /\ observed_tip < MaxTip
    /\ \E t \in (observed_tip + 1)..MaxTip : observed_tip' = t
    /\ UNCHANGED <<committed_tip, in_progress, failed, histVars, notify,
                   shutdown, params, pc, range, outcome, streamVars, ret>>

Next ==
    \/ ImportStart
    \/ IssueHeader
    \/ HeaderResponse
    \/ PullHeader
    \/ BlockResponse
    \/ PullBlock
    \/ ExecDone
    \/ StreamEnd
    \/ ShutdownEnd
    \/ ImportInnerTail
    \/ WaitReturn
    \/ NotifyOne
    \/ FireShutdown
    \/ Observe

Spec == Init /\ [][Next]_vars

\* The steps of the import task and of the port calls it awaits: the task is
\* polled whenever one of its futures can make progress, and every port call
\* returns.  The callers of notify_one, the shutdown, the sync task and the
\* caller that starts the next cycle are under no obligation.
Task ==
    \/ IssueHeader
    \/ HeaderResponse
    \/ PullHeader
    \/ BlockResponse
    \/ PullBlock
    \/ ExecDone
    \/ StreamEnd
    \/ ShutdownEnd
    \/ ImportInnerTail
    \/ WaitReturn

FairSpec == Spec /\ WF_vars(Task)

\* ------------------------------------------------------------------ import_v4
\* What every variant of import does before it launches its stream over the
\* range r: the histories of the cycle start afresh.
CycleStart(r) ==
    /\ tip0' = committed_tip
    /\ commits' = <<>>
    /\ execs' = <<>>
    /\ failedCalls' = <<>>
    /\ ret' = "none"
    /\ outcome' = [h \in Heights |-> "unasked"]
    /\ range' = r
    /\ in_progress' = IF r = None THEN in_progress ELSE r
    /\ exec' = 0
    /\ count' = 0
    /\ result' = Ok
    /\ scan1' = "closed"
    /\ UNCHANGED <<observed_tip, committed_tip, failed, notify, shutdown, params>>

\* Import::import_v4 calls import_inner with version 4: launch_stream_v4
\* spawns download_header for every height of the range at once.
ImportStartV4 ==
    /\ pc = "idle"
    /\ Len(hq) <= MaxDetached
    /\ LET r == process_range(committed_tip, observed_tip) IN
       /\ CycleStart(r)
       /\ pc' = IF r = None THEN "wait" ELSE "stream_v4"
       /\ tq' = IF r = None THEN <<>>
                ELSE [i \in 1..RangeLen(r) |->
                         [h |-> r[1] + i - 1, st |-> "hdr", res |-> NoneItem]]
       /\ nextH' = 0
       /\ hq' = hq

\* launch_stream_v4: the future complete is ready when the count has reached
\* end + 1.
complete(i, end) == ~(i < end + 1)

\* download_header when get_sealed_block_header answers: the header is sent
\* on the header channel when there is one of the height asked for, and the
\* task ends without sending otherwise.
download_header(block_height, ans) ==
    LET r == get_sealed_block_header(block_height, ans) IN
    IF r.tag = "some" /\ validate_header_height(block_height, r)
    THEN "hdrChan" ELSE "end"

\* The queue with the task at i moved to the stage st, or ended.
Advance(q, i, st) ==
    IF st = "end" THEN Remove(q, i) ELSE [q EXCEPT ![i].st = st]

\* A spawned download_header gets its answer.  (The channels are bounded, but a
\* task waiting to send is no different from one whose answer is late: what
\* is in a channel is kept with the task, in the stage "hdrChan", "blkChan"
\* or "resChan".)
HeaderResponseV4 ==
    /\ pc = "stream_v4"
    /\ \E i \in 1..Len(tq), ans \in HeaderAnswers :
          /\ tq[i].st = "hdr"
          /\ tq' = Advance(tq, i, download_header(tq[i].h, ans))
          /\ outcome' = [outcome EXCEPT ![tq[i].h] =
                            CASE ans = "err" -> "hdrErr"
                              [] ans = "none" -> "hdrNone"
                              [] ans = "mismatch" -> "hdrMismatch"
                              [] OTHER -> "pending"]
    /\ UNCHANGED <<stateVars, histVars, notify, shutdown, params, pc, range,
                   nextH, hq, scan1, exec, count, result, ret>>

\* The loop receives a header and spawns download_block, which calls
\* check_sealed_header and, on true, await_da_height.
RecvHeaderV4 ==
    /\ pc = "stream_v4"
    /\ \E i \in 1..Len(tq), seal \in SealAnswers :
          /\ tq[i].st = "hdrChan"
          /\ tq' = Advance(tq, i, IF seal = "true" THEN "da" ELSE "end")
          /\ outcome' = [outcome EXCEPT ![tq[i].h] =
                            CASE seal = "err" -> "sealErr"
                              [] seal = "false" -> "sealFalse"
                              [] OTHER -> @]
    /\ UNCHANGED <<stateVars, histVars, notify, shutdown, params, pc, range,
                   nextH, hq, scan1, exec, count, result, ret>>

\* download_block: await_da_height or get_transactions answers; the block is
\* sent on the block channel when it is assembled.
BlockResponseV4 ==
    /\ pc = "stream_v4"
    /\ \E i \in 1..Len(tq) :
          \/ /\ tq[i].st = "da"
             /\ \E da \in DaAnswers :
                   /\ tq' = Advance(tq, i, IF da = "ok" THEN "tx" ELSE "end")
                   /\ outcome' = [outcome EXCEPT ![tq[i].h] =
                                     IF da = "err" THEN "daErr" ELSE @]
          \/ /\ tq[i].st = "tx"
             /\ \E txs \in TxAnswers :
                   LET b == get_transactions_on_block(tq[i].h, txs) IN
                   /\ tq' = Advance(tq, i, IF b.tag = "some" THEN "blkChan"
                                           ELSE "end")
                   /\ outcome' = [outcome EXCEPT ![tq[i].h] =
                                     CASE txs = "err" -> "txErr"
                                       [] txs = "none" -> "txNone"
                                       [] txs = "bad" -> "txBad"
                                       [] OTHER -> "assembled"]
    /\ UNCHANGED <<stateVars, histVars, notify, shutdown, params, pc, range,
                   nextH, hq, scan1, exec, count, result, ret>>

\* The loop receives a block and spawns execute_block, which calls
\* execute_and_commit.
RecvBlockV4 ==
    /\ pc = "stream_v4"
    /\ \E i \in 1..Len(tq) :
          /\ tq[i].st = "blkChan"
          /\ tq' = Advance(tq, i, "exec")
          /\ execs' = Append(execs, tq[i].h)
    /\ UNCHANGED <<stateVars, tip0, commits, failedCalls, notify, shutdown,
                   params, pc, range, outcome, nextH, hq, scan1, exec, count,
                   result, ret>>

\* execute_block of a task of the running loop: the executor answers,
\* execute_and_commit commits on Ok, and the result is sent on the execute
\* channel.
ExecDoneV4 ==
    /\ pc = "stream_v4"
    /\ \E i \in 1..Len(tq), ans \in ExecAnswers :
          LET r == execute_and_commit(tq[i].h, ans) IN
          /\ tq[i].st = "exec"
          /\ tq' = [tq EXCEPT ![i].st = "resChan", ![i].res = r]
          /\ IF commits_block(r)
             THEN commit(tq[i].h) /\ commits' = Append(commits, tq[i].h)
             ELSE UNCHANGED <<stateVars, commits>>
          /\ outcome' = [outcome EXCEPT ![tq[i].h] =
                            IF ans = "ok" THEN "good" ELSE "execErr"]
    /\ UNCHANGED <<tip0, execs, failedCalls, notify, shutdown, params, pc,
                   range, nextH, hq, scan1, exec, count, result, ret>>

\* The loop receives a result of execute_block: it is pushed and the count
\* grows by one; the first error pushed is the one collect returns.
RecvExecuteV4 ==
    /\ pc = "stream_v4"
    /\ \E i \in 1..Len(tq) :
          /\ tq[i].st = "resChan"
          /\ tq' = Remove(tq, i)
          /\ count' = count + 1
          /\ result' = IF IsErr(result) THEN result ELSE tq[i].res
    /\ UNCHANGED <<stateVars, histVars, notify, shutdown, params, pc, range,
                   outcome, nextH, hq, scan1, exec, ret>>

\* The tasks of q that still change the State after the loop has returned:
\* those in execute_and_commit.  (The others find their channel closed.)
Detached(q) == SelectSeq(q, LAMBDA t : t.st = "exec")

\* The loop breaks, on complete or on stop, and launch_stream_v4 returns the
\* count and the first error; the spawned tasks are not awaited.
BreakV4 ==
    /\ pc = "stream_v4"
    /\ complete(count, range[2]) \/ shutdown
    /\ pc' = "returned"
    /\ hq' = hq \o Detached(tq)
    /\ tq' = <<>>
    /\ UNCHANGED <<stateVars, histVars, notify, shutdown, params, range,
                   outcome, nextH, scan1, exec, count, result, ret>>

\* execute_block of a task whose loop has returned: the executor answers and
\* execute_and_commit commits on Ok; nobody receives the result.
DetachedExecV4 ==
    /\ \E i \in 1..Len(hq), ans \in ExecAnswers :
          LET r == execute_and_commit(hq[i].h, ans) IN
          /\ hq[i].st = "exec"
          /\ hq' = Remove(hq, i)
          /\ IF commits_block(r)
             THEN commit(hq[i].h) /\ commits' = Append(commits, hq[i].h)
             ELSE UNCHANGED <<stateVars, commits>>
    /\ UNCHANGED <<tip0, execs, failedCalls, notify, shutdown, params, pc,
                   range, outcome, nextH, tq, scan1, exec, count, result, ret>>

\* The steps of the loop of launch_stream_v4 and of the tasks it spawned.
TaskV4 ==
    \/ HeaderResponseV4
    \/ RecvHeaderV4
    \/ BlockResponseV4
    \/ RecvBlockV4
    \/ ExecDoneV4
    \/ RecvExecuteV4
    \/ BreakV4

\* The sync task observes a higher tip, in the runs of the variants.
ObserveVariant ==
    /\ observed_tip < MaxTipVariant
    /\ \E t \in (observed_tip + 1)..MaxTipVariant : observed_tip' = t
    /\ UNCHANGED <<committed_tip, in_progress, failed, histVars, notify,
                   shutdown, params, pc, range, outcome, streamVars, ret>>

NextV4 ==
    \/ ImportStartV4
    \/ TaskV4
    \/ DetachedExecV4
    \/ ImportInnerTail
    \/ WaitReturn
    \/ NotifyOne
    \/ FireShutdown
    \/ ObserveVariant

SpecV4 == Init /\ [][NextV4]_vars

\* ------------------------------------------------------------------ import_v3
\* Import::import_v3 calls import_inner with version 3.
ImportStartV3 ==
    /\ pc = "idle"
    /\ LET r == process_range(committed_tip, observed_tip) IN
       /\ CycleStart(r)
       /\ pc' = IF r = None THEN "wait" ELSE "stream_v3"
       /\ nextH' = IF r = None THEN 0 ELSE stream_iter(r)
    /\ tq' = <<>>
    /\ hq' = hq

\* launch_stream_v3 has the take_until and the then of launch_stream.
PollingV3 == pc = "stream_v3" /\ then_idle(exec) /\ take_until(shutdown)

CanIssueV3 == PollingV3 /\ BlockRoom /\ nextH <= range[2]

\* buffered(max_get_txns_requests): the future of the two map closures for
\* the next height is taken into the queue and polled, which calls
\* get_sealed_block_header.
IssueV3 ==
    /\ CanIssueV3
    /\ tq' = Append(tq, [h |-> nextH, st |-> "hdr", res |-> NoneItem])
    /\ nextH' = nextH + 1
    /\ outcome' = [outcome EXCEPT ![nextH] = "pending"]
    /\ UNCHANGED <<stateVars, histVars, notify, shutdown, params, pc, range,
                   hq, scan1, exec, count, result, ret>>

\* The future of launch_stream_v3 for one height when
\* get_sealed_block_header answers: without a header of that height it
\* returns what the first closure returned, with one it goes on as the
\* closure of launch_stream does.
block_future_v3(ent, ans, seal) ==
    LET r == get_header_range(ent.h, ans) IN
    IF r.tag = "some" THEN block_future_start(r, seal)
    ELSE [h |-> ent.h, st |-> "ready", res |-> r]

\* A port call of one of the futures in the queue answers, in any order.
ResponseV3 ==
    /\ PollingV3
    /\ \E j \in 1..Len(tq) :
          \/ /\ tq[j].st = "hdr"
             /\ \E ans \in HeaderAnswers, seal \in SealAnswers :
                   /\ ans # "header" => seal = "true"
                   /\ tq' = [tq EXCEPT ![j] = block_future_v3(tq[j], ans, seal)]
                   /\ outcome' = [outcome EXCEPT ![tq[j].h] =
                                     CASE ans = "err" -> "hdrErr"
                                       [] ans = "none" -> "hdrNone"
                                       [] ans = "mismatch" -> "hdrMismatch"
                                       [] seal = "err" -> "sealErr"
                                       [] seal = "false" -> "sealFalse"
                                       [] OTHER -> @]
          \/ /\ tq[j].st = "da"
             /\ \E da \in DaAnswers :
                   /\ tq' = [tq EXCEPT ![j] = block_future_da(tq[j], da)]
                   /\ outcome' = [outcome EXCEPT ![tq[j].h] =
                                     IF da = "err" THEN "daErr" ELSE @]
          \/ /\ tq[j].st = "tx"
             /\ \E txs \in TxAnswers :
                   /\ tq' = [tq EXCEPT ![j] = block_future_tx(tq[j], txs)]
                   /\ outcome' = [outcome EXCEPT ![tq[j].h] =
                                     CASE txs = "err" -> "txErr"
                                       [] txs = "none" -> "txNone"
                                       [] txs = "bad" -> "txBad"
                                       [] OTHER -> "assembled"]
    /\ UNCHANGED <<stateVars, histVars, notify, shutdown, params, pc, range,
                   nextH, hq, scan1, exec, count, result, ret>>

\* The closure of then in launch_stream_v3 on an item that is no block: an
\* Ok(None) becomes Ok(()) and an error is returned.
then_v3(item) == IF item.tag = "none" THEN Ok ELSE item

\* The queue releases its oldest result, which passes take_until: a block
\* starts execute_and_commit, and anything else passes then and fold and the
\* stream goes on.
PullV3 ==
    /\ PollingV3
    /\ ~CanIssueV3
    /\ \E j \in buffered_next(tq) :
       LET acc == fold([count |-> count, result |-> result], then_v3(tq[j].res))
       IN /\ tq' = Remove(tq, j)
          /\ IF tq[j].res.tag = "some"
             THEN /\ exec' = tq[j].h
                  /\ execs' = Append(execs, tq[j].h)
                  /\ UNCHANGED <<count, result>>
             ELSE /\ count' = acc.count
                  /\ result' = acc.result
                  /\ UNCHANGED <<exec, execs>>
    /\ UNCHANGED <<stateVars, tip0, commits, failedCalls, notify, shutdown,
                   params, pc, range, outcome, nextH, hq, scan1, ret>>

\* The executor answers and execute_and_commit returns: on Ok the height is
\* committed; the result passes fold and the stream goes on.
ExecDoneV3 ==
    /\ pc = "stream_v3" /\ exec # 0
    /\ \E ans \in ExecAnswers :
       LET r == execute_and_commit(exec, ans)
           acc == fold([count |-> count, result |-> result], r)
       IN /\ IF commits_block(r)
             THEN commit(exec) /\ commits' = Append(commits, exec)
             ELSE UNCHANGED <<stateVars, commits>>
          /\ outcome' = [outcome EXCEPT ![exec] =
                            IF ans = "ok" THEN "good" ELSE "execErr"]
          /\ count' = acc.count
          /\ result' = acc.result
    /\ exec' = 0
    /\ UNCHANGED <<tip0, execs, failedCalls, notify, shutdown, params, pc,
                   range, nextH, hq, tq, scan1, ret>>

\* The range is exhausted and the queue has drained: the stream ends.
StreamEndV3 ==
    /\ PollingV3
    /\ tq = <<>> /\ nextH > range[2]
    /\ Dropped
    /\ UNCHANGED <<stateVars, histVars, notify, shutdown, params, range,
                   outcome, exec, count, result, ret>>

\* take_until: the shutdown future is ready when the stream is next polled.
ShutdownEndV3 ==
    /\ pc = "stream_v3" /\ then_idle(exec) /\ ~take_until(shutdown)
    /\ Dropped
    /\ UNCHANGED <<stateVars, histVars, notify, shutdown, params, range,
                   outcome, exec, count, result, ret>>

NextV3 ==
    \/ ImportStartV3
    \/ IssueV3
    \/ ResponseV3
    \/ PullV3
    \/ ExecDoneV3
    \/ StreamEndV3
    \/ ShutdownEndV3
    \/ ImportInnerTail
    \/ WaitReturn
    \/ NotifyOne
    \/ FireShutdown
    \/ ObserveVariant

SpecV3 == Init /\ [][NextV3]_vars

\* ------------------------------------------------------------------ import_v2
\* Import::import_v2 calls import_inner with version 2.
ImportStartV2 ==
    /\ pc = "idle"
    /\ Len(hq) <= MaxDetached
    /\ LET r == process_range(committed_tip, observed_tip) IN
       /\ CycleStart(r)
       /\ pc' = IF r = None THEN "wait" ELSE "stream_v2"
       /\ nextH' = IF r = None THEN 0 ELSE stream_iter(r)
    /\ tq' = <<>>
    /\ hq' = hq

\* launch_stream_v2 has the take_until and the then of launch_stream.
PollingV2 == pc = "stream_v2" /\ then_idle(exec) /\ take_until(shutdown)

CanIssueV2 == PollingV2 /\ BlockRoom /\ nextH <= range[2]

\* buffered(max_get_txns_requests): the map closure is called for the next
\* height and spawns the task that awaits the header future, so that
\* get_sealed_block_header is called; the task's handle enters the queue.
IssueV2 ==
    /\ CanIssueV2
    /\ tq' = Append(tq, [h |-> nextH, st |-> "hdr", res |-> NoneItem])
    /\ nextH' = nextH + 1
    /\ outcome' = [outcome EXCEPT ![nextH] = "pending"]
    /\ UNCHANGED <<stateVars, histVars, notify, shutdown, params, pc, range,
                   hq, scan1, exec, count, result, ret>>

\* The task with a port call answered: the task spawned by launch_stream_v2
\* runs the steps of the future of launch_stream_v3.
task_v2(ent, ans, seal, da, txs) ==
    CASE ent.st = "hdr" -> block_future_v3(ent, ans, seal)
      [] ent.st = "da" -> block_future_da(ent, da)
      [] OTHER -> block_future_tx(ent, txs)

\* A port call of one of the spawned tasks answers, in any order; the tasks
\* run whether or not the stream is polled.
ResponseV2 ==
    /\ pc = "stream_v2"
    /\ \E j \in 1..Len(tq) :
          \/ /\ tq[j].st = "hdr"
             /\ \E ans \in HeaderAnswers, seal \in SealAnswers :
                   /\ ans # "header" => seal = "true"
                   /\ tq' = [tq EXCEPT ![j] =
                                task_v2(tq[j], ans, seal, "ok", "txs")]
                   /\ outcome' = [outcome EXCEPT ![tq[j].h] =
                                     CASE ans = "err" -> "hdrErr"
                                       [] ans = "none" -> "hdrNone"
                                       [] ans = "mismatch" -> "hdrMismatch"
                                       [] seal = "err" -> "sealErr"
                                       [] seal = "false" -> "sealFalse"
                                       [] OTHER -> @]
          \/ /\ tq[j].st = "da"
             /\ \E da \in DaAnswers :
                   /\ tq' = [tq EXCEPT ![j] =
                                task_v2(tq[j], "header", "true", da, "txs")]
                   /\ outcome' = [outcome EXCEPT ![tq[j].h] =
                                     IF da = "err" THEN "daErr" ELSE @]
          \/ /\ tq[j].st = "tx"
             /\ \E txs \in TxAnswers :
                   /\ tq' = [tq EXCEPT ![j] =
                                task_v2(tq[j], "header", "true", "ok", txs)]
                   /\ outcome' = [outcome EXCEPT ![tq[j].h] =
                                     CASE txs = "err" -> "txErr"
                                       [] txs = "none" -> "txNone"
                                       [] txs = "bad" -> "txBad"
                                       [] OTHER -> "assembled"]
    /\ UNCHANGED <<stateVars, histVars, notify, shutdown, params, pc, range,
                   nextH, hq, scan1, exec, count, result, ret>>

\* launch_stream_v2 returns: the stream and its queue are dropped, and the
\* spawned tasks that have not finished run on.
DroppedV2 ==
    /\ pc' = "returned"
    /\ nextH' = 0
    /\ hq' = hq \o SelectSeq(tq, LAMBDA t : t.st # "ready")
    /\ tq' = <<>>
    /\ scan1' = "closed"

\* The queue releases its oldest result, which passes scan_none_or_err and
\* take_until: a None closes the stream, an error passes then, scan_err and
\* fold and closes it, a block starts execute_and_commit.
PullV2 ==
    /\ PollingV2
    /\ ~CanIssueV2
    /\ \E j \in buffered_next(tq) :
       LET s == scan_none_or_err(FALSE, tq[j].res)
           e == scan_err(FALSE, s.out)
           acc == fold([count |-> count, result |-> result], e.out)
       IN IF s.out.tag = "end"
          THEN /\ DroppedV2
               /\ UNCHANGED <<exec, execs, count, result>>
          ELSE IF s.out.tag = "err"
          THEN /\ DroppedV2
               /\ count' = acc.count
               /\ result' = acc.result
               /\ UNCHANGED <<exec, execs>>
          ELSE /\ tq' = Remove(tq, j)
               /\ exec' = s.out.h
               /\ execs' = Append(execs, s.out.h)
               /\ UNCHANGED <<pc, count, result, nextH, hq, scan1>>
    /\ UNCHANGED <<stateVars, tip0, commits, failedCalls, notify, shutdown,
                   params, range, outcome, ret>>

\* The executor answers and execute_and_commit returns: on Ok the height is
\* committed; the result passes scan_err and fold, and an error closes the
\* stream.
ExecDoneV2 ==
    /\ pc = "stream_v2" /\ exec # 0
    /\ \E ans \in ExecAnswers :
       LET r == execute_and_commit(exec, ans)
           e == scan_err(FALSE, r)
           acc == fold([count |-> count, result |-> result], e.out)
       IN /\ IF commits_block(r)
             THEN commit(exec) /\ commits' = Append(commits, exec)
             ELSE UNCHANGED <<stateVars, commits>>
          /\ outcome' = [outcome EXCEPT ![exec] =
                            IF ans = "ok" THEN "good" ELSE "execErr"]
          /\ count' = acc.count
          /\ result' = acc.result
          /\ IF e.err THEN DroppedV2 ELSE UNCHANGED <<pc, nextH, hq, tq, scan1>>
    /\ exec' = 0
    /\ UNCHANGED <<tip0, execs, failedCalls, notify, shutdown, params, range,
                   ret>>

\* The range is exhausted and the queue has drained: the stream ends.
StreamEndV2 ==
    /\ PollingV2
    /\ tq = <<>> /\ nextH > range[2]
    /\ DroppedV2
    /\ UNCHANGED <<stateVars, histVars, notify, shutdown, params, range,
                   outcome, exec, count, result, ret>>

\* take_until: the shutdown future is ready when the stream is next polled.
ShutdownEndV2 ==
    /\ pc = "stream_v2" /\ then_idle(exec) /\ ~take_until(shutdown)
    /\ DroppedV2
    /\ UNCHANGED <<stateVars, histVars, notify, shutdown, params, range,
                   outcome, exec, count, result, ret>>

\* A port call of a task whose stream has returned answers; the task ends
\* when it has its result, which nobody awaits.
DetachedResponseV2 ==
    /\ \E i \in 1..Len(hq) :
          \E ans \in IF hq[i].st = "hdr" THEN HeaderAnswers ELSE {"header"},
             seal \in IF hq[i].st = "hdr" THEN SealAnswers ELSE {"true"},
             da \in IF hq[i].st = "da" THEN DaAnswers ELSE {"ok"},
             txs \in IF hq[i].st = "tx" THEN TxAnswers ELSE {"txs"} :
             LET t == task_v2(hq[i], ans, seal, da, txs) IN
             hq' = IF t.st = "ready" THEN Remove(hq, i)
                   ELSE [hq EXCEPT ![i] = t]
    /\ UNCHANGED <<stateVars, histVars, notify, shutdown, params, pc, range,
                   outcome, nextH, tq, scan1, exec, count, result, ret>>

NextV2 ==
    \/ ImportStartV2
    \/ IssueV2
    \/ ResponseV2
    \/ PullV2
    \/ ExecDoneV2
    \/ StreamEndV2
    \/ ShutdownEndV2
    \/ DetachedResponseV2
    \/ ImportInnerTail
    \/ WaitReturn
    \/ NotifyOne
    \/ FireShutdown
    \/ ObserveVariant

SpecV2 == Init /\ [][NextV2]_vars

\* ------------------------------------------------------------------ properties
\* launch_stream of the cycle has returned its (count, result).
StreamReturned == range # None /\ pc \in {"returned", "wait", "idle"}

\* import_inner of the cycle has also recorded the failed suffix.
Recorded == range # None /\ pc \in {"wait", "idle"}

\* The heights start, start+1, ..., start+n-1 in order.
Run(start, n) == [i \in 1..n |-> start + i - 1]

\* h is the lowest height of the range at which a port call did not succeed.
LowestBad(h) ==
    /\ InRange(h, range)
    /\ outcome[h] \in BadOutcomes
    /\ \A l \in Heights : InRange(l, range) /\ l < h => outcome[l] \notin BadOutcomes

\* C1: the heights committed in a cycle are start, start+1, ... in increasing
\* order without a gap, and once launch_stream has returned they are exactly
\* the first count heights of the range.
C1_ContiguousCommits ==
    range # None =>
        /\ commits = Run(range[1], Len(commits))
        /\ StreamReturned => Len(commits) = count

\* Two heights were committed and a third was fetched before the cycle ended.
C1_Witness ==
    /\ pc = "returned"
    /\ Len(commits) >= 2
    /\ count = Len(commits)

\* C2: when execute_and_commit of the block at height h returns an error,
\* State::commit(h) is not called, the committed tip stays below h for the
\* rest of the cycle, and the failing call leaves the State as it was.
C2_NoGhostCommit ==
    /\ [](\A h \in Heights : outcome[h] = "execErr" =>
              /\ h \notin Elems(commits)
              /\ committed_tip < h)
    /\ [][exec # 0 /\ outcome'[exec] = "execErr" =>
              /\ UNCHANGED stateVars
              /\ commits' = commits]_vars

\* An execution failed after an earlier height of the cycle was committed.
C2_Witness ==
    /\ pc = "returned"
    /\ Len(commits) >= 1
    /\ \E h \in Heights : outcome[h] = "execErr" /\ h \in Elems(execs)

\* C3: once shutdown has fired no execute_and_commit is started; one that is
\* in flight is not dropped, and when it returns its result is honoured: on
\* Ok the height is committed and counted, on failure the error is returned.
C3_CancellationSafety ==
    [][shutdown /\ pc = "stream" =>
          /\ exec' # exec => exec' = 0
          /\ exec # 0 => pc' = "stream" \/ exec' = 0
          /\ exec # 0 /\ exec' = 0 =>
                \/ /\ commits' = Append(commits, exec)
                   /\ committed_tip' = exec
                   /\ count' = count + 1
                   /\ result' = result
                \/ /\ result' = Err("execErr", exec)
                   /\ count' = count
                   /\ commits' = commits
                   /\ pc' = "returned"]_vars

\* The execution that was in flight when shutdown fired has failed, and its
\* error is the result of the stream.
C3_Witness ==
    /\ shutdown
    /\ pc = "returned"
    /\ result.e = "execErr"
    /\ Len(commits) >= 1

\* C4: while the stream runs, at most max_get_header_requests header futures
\* are held by the header buffer, at most max_get_txns_requests block futures
\* by the block buffer, and at most one execute_and_commit has been started
\* and has not returned.
C4_BoundedConcurrency ==
    pc = "stream" =>
        /\ Len(hq) <= params.max_get_header_requests
        /\ Len(tq) <= params.max_get_txns_requests
        /\ Len(execs)
             - Cardinality({h \in Elems(execs) : outcome[h] \in {"good", "execErr"}})
           <= 1

\* The header buffer is at its limit of two requests while the block buffer
\* holds a block future.
C4_Witness ==
    /\ pc = "stream"
    /\ Len(hq) = params.max_get_header_requests
    /\ params.max_get_header_requests > 1
    /\ Len(tq) >= 1

\* C5: no step lowers the committed tip, and each successful
\* execute_and_commit raises it by exactly one.
C5_MonotoneCommits ==
    [][/\ committed_tip' >= committed_tip
       /\ commits' # commits /\ commits' # <<>> =>
              committed_tip' = committed_tip + 1]_vars

\* A later cycle, started above height 1 with a failed range on record, has
\* committed a height.
C5_Witness ==
    /\ tip0 >= 1
    /\ commits # <<>>
    /\ committed_tip = tip0 + Len(commits)
    /\ failed # {}

\* C6: once import_inner has dealt with the (count, result) of the stream,
\* failed_to_process was called exactly once, with (start+count)..=end, when
\* count is less than the number of heights of the range, and not at all
\* when it equals it; this holds for Ok and Err alike, by the time import has
\* returned the error; while the stream runs nothing is recorded.
C6_FailedSuffix ==
    range # None =>
        IF Recorded
        THEN IF count < range[2] - range[1] + 1
             THEN failedCalls = << <<range[1] + count, range[2]>> >>
             ELSE failedCalls = <<>>
        ELSE failedCalls = <<>>

\* import returned an error after one height was committed and the rest of
\* the range was recorded as failed.
C6_Witness ==
    /\ Recorded
    /\ ret = "err"
    /\ count >= 1
    /\ failedCalls = << <<range[1] + count, range[2]>> >>

\* C7: when no port call of the cycle fails and shutdown has not fired, the
\* cycle has committed every height of the range in order, the stream
\* returned the number of heights of the range and Ok, the committed tip is
\* the end of the range and no failed range was recorded.
C7_HappyPath ==
    (/\ Recorded
     /\ ~shutdown
     /\ \A h \in Heights : outcome[h] \notin BadOutcomes)
    => /\ commits = Run(range[1], RangeLen(range))
       /\ count = RangeLen(range)
       /\ result = Ok
       /\ committed_tip = range[2]
       /\ failedCalls = <<>>

\* A cycle over three heights has committed them all.
C7_Witness ==
    /\ Recorded
    /\ ~shutdown
    /\ commits = <<1, 2, 3>>
    /\ result = Ok

\* What C8 and C9 conclude for a cycle closed at height h.
ClosedAt(h) ==
    /\ commits = Run(range[1], h - range[1])
    /\ count = h - range[1]
    /\ failedCalls = << <<h, range[2]>> >>

\* Every fetch and consensus call made for the heights of the range below h
\* has succeeded.
LowerSucceed(h) ==
    \A l \in Heights :
        InRange(l, range) /\ l < h => outcome[l] \in {"assembled", "good"}

\* C8 as claimed: if a header or the transactions are missing or invalid at
\* h and every lower height succeeds, the cycle committed start..h-1,
\* returned count = h - start and Ok, and recorded h..=end as failed.
C8_NoneClosesGracefully_Original ==
    \A h \in Heights :
        (/\ Recorded
         /\ InRange(h, range)
         /\ outcome[h] \in NoneOutcomes
         /\ LowerSucceed(h))
        => ClosedAt(h) /\ result = Ok

\* C8, amended: if h is the lowest height at which a call did not succeed,
\* what is wrong at h is a missing or invalid header or transactions, and
\* shutdown has not fired, the cycle committed start..h-1, returned
\* count = h - start and Ok, and recorded h..=end as failed.
C8_NoneClosesGracefully ==
    \A h \in Heights :
        (Recorded /\ ~shutdown /\ LowestBad(h) /\ outcome[h] \in NoneOutcomes)
        => ClosedAt(h) /\ result = Ok

\* A cycle closed by a missing or invalid height above the start, with the
\* lower heights committed.
C8_Witness ==
    /\ Recorded
    /\ ~shutdown
    /\ \E h \in Heights :
          /\ LowestBad(h) /\ outcome[h] \in NoneOutcomes
          /\ h > range[1] /\ h < range[2]
          /\ count = h - range[1]

\* C9: if a fetch or consensus call fails at h, no lower height fails and
\* shutdown has not fired, the cycle committed start..h-1 whenever the error
\* arrived, returned count = h - start and that error, recorded h..=end as
\* failed, and left the committed tip at h-1.
C9_FetchErrorStopsAtHeight ==
    \A h \in Heights :
        (Recorded /\ ~shutdown /\ LowestBad(h) /\ outcome[h] \in FetchErrOutcomes)
        => /\ ClosedAt(h)
           /\ result = Err(outcome[h], h)
           /\ committed_tip = h - 1

\* A fetch error above the start closed the cycle after the lower heights
\* were committed.
C9_Witness ==
    /\ Recorded
    /\ ~shutdown
    /\ \E h \in Heights :
          /\ LowestBad(h) /\ outcome[h] \in FetchErrOutcomes
          /\ h > range[1] /\ h < range[2]
          /\ committed_tip = h - 1

\* C10: once execute_and_commit has failed at h, nothing above h is executed
\* or committed in that cycle, the stream returns count = h - start and the
\* error, the committed tip stays h-1, and h..=end is recorded as failed.
C10_ExecFailureStops ==
    \A h \in Heights :
        outcome[h] = "execErr" =>
            /\ exec = 0
            /\ \A x \in Elems(execs) \cup Elems(commits) : x <= h
            /\ commits = Run(range[1], h - range[1])
            /\ count = h - range[1]
            /\ result = Err("execErr", h)
            /\ committed_tip = h - 1
            /\ Recorded => failedCalls = << <<h, range[2]>> >>

\* The execution of h failed when the block of h+1 was already assembled.
C10_Witness ==
    /\ Recorded
    /\ \E h \in Heights :
          /\ outcome[h] = "execErr"
          /\ h + 1 \in Heights
          /\ outcome[h + 1] = "assembled"
          /\ h > range[1]

\* The header fetch, the DA wait or the transactions fetch of h is in flight.
InFlight(h) ==
    \/ \E i \in 1..Len(hq) : hq[i].h = h /\ hq[i].st = "pending"
    \/ \E j \in 1..Len(tq) : tq[j].h = h /\ tq[j].st \in {"da", "tx"}

\* The stream is suspended in a call for h with start..h-1 committed, nothing
\* executing and no error so far.
SuspendedAt(h) ==
    /\ pc = "stream" /\ exec = 0 /\ result = Ok
    /\ InRange(h, range)
    /\ commits = Run(range[1], h - range[1])
    /\ count = h - range[1]
    /\ InFlight(h)

\* The cycle ended with every height below h committed and the calls for h
\* neither failed nor finished.
StoppedAt(h) ==
    /\ InRange(h, range)
    /\ outcome[h] = "pending"
    /\ \A l \in Heights : InRange(l, range) /\ l < h => outcome[l] = "good"

\* C11: when shutdown has fired while the stream is suspended in a call for
\* h, with start..h-1 committed and no error, the only step the stream takes
\* is to return count = h - start and Ok with nothing more committed and the
\* committed tip at h-1; import_inner then records h..=end as failed; and
\* the wait, no permit being stored, returns false.
C11_ShutdownDuringWait ==
    /\ [][\A h \in Heights :
            shutdown /\ SuspendedAt(h) =>
                \/ SuspendedAt(h)'
                \/ /\ pc' = "returned"
                   /\ count' = h - range[1]
                   /\ result' = Ok
                   /\ commits' = commits
                   /\ committed_tip' = h - 1]_vars
    /\ [](\A h \in Heights :
            shutdown /\ Recorded /\ StoppedAt(h) =>
                /\ count = h - range[1]
                /\ result = Ok
                /\ failedCalls = << <<h, range[2]>> >>
                /\ committed_tip = h - 1)
    /\ [][pc = "wait" /\ shutdown /\ notify = 0 /\ pc' = "idle" =>
              ret' = "false"]_vars

\* Shutdown stopped a cycle over 1..=3 while height 2 was awaited: height 1
\* is committed, 2..=3 is recorded as failed and import returned false.
C11_Witness ==
    /\ shutdown
    /\ pc = "idle" /\ ret = "false"
    /\ range = <<1, 3>>
    /\ StoppedAt(2)
    /\ count = 1
    /\ failedCalls = << <<2, 3>> >>
    /\ committed_tip = 1

\* C12: wherever the importer waits on the shutdown together with another
\* event the shutdown wins when both are ready: a stream polled with the
\* shutdown fired and nothing executing takes no step but to end, and the
\* end-of-cycle wait entered with a permit stored and the shutdown fired
\* returns false.
C12_ShutdownResolvesFirst ==
    /\ [][pc = "stream" /\ shutdown /\ exec = 0 =>
              \/ pc' = "returned"
              \/ UNCHANGED <<pc, streamVars, outcome, commits, execs>>]_vars
    /\ [][pc = "wait" /\ shutdown /\ notify > 0 /\ pc' = "idle" =>
              ret' = "false"]_vars

\* C13: a cycle whose stream did not fail goes to the wait and returns only
\* from there; it returns true only by consuming a stored permit and false
\* only when the shutdown has fired, and it stays in the wait while neither
\* has happened.
C13_WaitReturnsWhichFired ==
    /\ [][pc = "returned" /\ ~IsErr(result) => pc' \in {"returned", "wait"}]_vars
    /\ [][ret' # ret /\ ret' \in {"true", "false"} => pc = "wait"]_vars
    /\ [][pc = "wait" /\ pc' # "wait" =>
              /\ pc' = "idle"
              /\ \/ ret' = "true" /\ notify > 0 /\ notify' = notify - 1
                 \/ ret' = "false" /\ shutdown]_vars

\* A cycle that committed a height returned true with no shutdown.
C13_Witness ==
    /\ pc = "idle" /\ ret = "true"
    /\ ~shutdown
    /\ Recorded /\ count >= 1

\* C14: the Notify never holds more than one permit, a notify_one made
\* while a permit is stored during the draining of a range adds nothing, and
\* a wait that returns true leaves no permit behind: after it the next wait
\* returns true only on a fresh notify_one.
C14_WakeCoalescing ==
    /\ [](notify <= 1)
    /\ [][(pc = "stream" \/ pc = "returned") /\ notify >= 1 =>
              notify' = notify]_vars
    /\ [][pc = "wait" /\ pc' = "idle" /\ ret' = "true" => notify' = 0]_vars

\* A later cycle that drained a range returned true and no permit is left.
C14_Witness ==
    /\ pc = "idle" /\ ret = "true"
    /\ notify = 0
    /\ Recorded /\ tip0 >= 1 /\ commits # <<>>

\* C15: a permit stored by notify_one while a range is drained is kept
\* until the wait; a wait entered with a permit returns true and consumes
\* it; and if notify_one was called during the draining with the shutdown
\* not fired, the cycle does return: true from its wait, or the error of its
\* stream with the permit still stored.
C15_WakeNotLost ==
    /\ [][notify = 1 /\ pc # "wait" => notify' = 1]_vars
    /\ [][pc = "wait" /\ notify = 1 /\ pc' = "idle" =>
              ret' = "true" /\ notify' = 0]_vars
    /\ ((pc = "stream" \/ pc = "returned") /\ notify = 1 /\ ~shutdown)
           ~> (pc = "idle" /\ (ret = "true" \/ (ret = "err" /\ notify = 1)))

\* The cycle has drained its range and enters the wait with a permit stored.
C15_Witness ==
    /\ pc = "wait"
    /\ notify = 1
    /\ ~shutdown
    /\ Recorded /\ count = RangeLen(range)

\* A height the cycle has asked a port about, executed or committed.
Touched(h) ==
    \/ outcome[h] # "unasked"
    \/ h \in Elems(execs) \cup Elems(commits)
    \/ \E i \in 1..Len(hq) : hq[i].h = h
    \/ \E j \in 1..Len(tq) : tq[j].h = h

\* C16: a cycle started with committed_tip >= observed_tip gets no range, and
\* from its start to its return it makes no port call, no execution and no
\* commit and is in the wait; and no cycle asks for, executes or commits a
\* height at or below the committed tip it started with.
C16_NoReplay ==
    /\ (pc # "idle" /\ range = None) =>
           /\ pc = "wait"
           /\ commits = <<>> /\ execs = <<>>
           /\ hq = <<>> /\ tq = <<>> /\ exec = 0
           /\ \A h \in Heights : ~Touched(h)
           /\ committed_tip = tip0
    /\ (pc # "idle" /\ range # None) => range[1] = tip0 + 1
    /\ \A h \in Heights : Touched(h) => h > tip0
    /\ exec # 0 => exec > tip0

\* Every observed height is committed and a further cycle, finding no range,
\* is in the wait.
C16_Witness ==
    /\ pc = "wait"
    /\ range = None
    /\ tip0 = observed_tip
    /\ tip0 = MaxTip

\* C17: the result of the stream is an error only after the stream has
\* returned, and then it is the error of a height whose lower heights were
\* all executed and committed, so the error of the lowest failing height;
\* once set it is not replaced; and when the lowest failing height is one
\* with a missing or invalid header or transactions the result is Ok.
C17_FirstErrorOnly ==
    /\ [](IsErr(result) =>
            /\ StreamReturned
            /\ InRange(result.h, range)
            /\ result = Err(outcome[result.h], result.h)
            /\ LowestBad(result.h)
            /\ \A l \in Heights :
                  InRange(l, range) /\ l < result.h => outcome[l] = "good")
    /\ [](\A h \in Heights :
            range # None /\ LowestBad(h) /\ outcome[h] \in NoneOutcomes =>
                result = Ok)
    /\ [][IsErr(result) /\ pc # "idle" => result' = result]_vars

\* The stream returned the error of a height although a higher height had
\* failed as well.
C17_Witness ==
    /\ StreamReturned
    /\ IsErr(result)
    /\ \E g \in Heights :
          /\ g > result.h
          /\ outcome[g] \in FetchErrOutcomes
          /\ outcome[g] # outcome[result.h]

\* C18: the committed tip never exceeds the observed tip, however the sync
\* task's raising of the observed tip interleaves with the commits of the
\* cycle.
C18_CommittedAtMostObserved == committed_tip <= observed_tip

\* The sync task raised the observed tip while the cycle was committing the
\* range it had obtained, whose last height is now committed.
C18_Witness ==
    /\ pc = "stream"
    /\ range # None
    /\ commits # <<>>
    /\ committed_tip = range[2]
    /\ observed_tip > range[2]

\* await_da_height, get_transactions of h is in flight.
DaPending(h) == \E j \in 1..Len(tq) : tq[j].h = h /\ tq[j].st = "da"
TxPending(h) == \E j \in 1..Len(tq) : tq[j].h = h /\ tq[j].st = "tx"

\* check_sealed_header is about to be called on the header of h.
HeaderReleased(h) ==
    \E i \in 1..Len(hq) :
        hq[i].h = h /\ hq[i].st = "ready" /\ hq[i].res = Some(h)

TxOutcomes == {"txErr", "txNone", "txBad", "assembled"}
ConsensusStopped == {"sealFalse", "sealErr", "daErr"}

\* C19: for each height await_da_height is called in the step in which
\* check_sealed_header returned true on its header, get_transactions is
\* called in the step in which await_da_height returned Ok, and
\* get_transactions answers only a request made; a height whose seal was
\* invalid or whose consensus call failed stays so, has no get_transactions
\* in flight and is never executed.
C19_StageOrder ==
    /\ [][\A h \in Heights :
            DaPending(h)' /\ ~DaPending(h) =>
                HeaderReleased(h) /\ outcome'[h] = "pending"]_vars
    /\ [][\A h \in Heights :
            TxPending(h)' /\ ~TxPending(h) =>
                DaPending(h) /\ outcome'[h] = "pending"]_vars
    /\ [][\A h \in Heights :
            outcome'[h] \in TxOutcomes /\ outcome[h] \notin TxOutcomes =>
                TxPending(h)]_vars
    /\ [](\A h \in Heights :
            outcome[h] \in ConsensusStopped =>
                /\ ~TxPending(h)
                /\ h \notin Elems(execs)
                /\ exec # h)
    /\ [][\A h \in Heights :
            outcome[h] \in ConsensusStopped /\ pc # "idle" =>
                outcome'[h] = outcome[h]]_vars

\* get_transactions of one height is in flight while await_da_height has
\* failed for the next.
C19_Witness ==
    \E h \in Heights :
        /\ TxPending(h)
        /\ h + 1 \in Heights
        /\ outcome[h + 1] = "daErr"

\* C20: when the task is polled and every port call returns, a cycle that is
\* running its stream or has just left it reaches the wait or returns the
\* error, unless the shutdown fires.
C20_StreamTerminates ==
    (pc = "stream" \/ pc = "returned")
        ~> (shutdown \/ pc = "wait" \/ pc = "idle")

\* With no shutdown a stream over three heights ran to the end of its range
\* and the cycle is in the wait.
C20_Witness ==
    /\ pc = "wait"
    /\ ~shutdown
    /\ Recorded
    /\ RangeLen(range) = 3
    /\ count = 3

\* The heights of the cycle whose execute_and_commit returned Ok.
Good == {h \in Heights : outcome[h] = "good"}

\* C21: while the loop of launch_stream_v4 runs and the shutdown has not
\* fired, the loop or one of its tasks can take a step: the run ends by
\* itself when its heights are executed or one of them yields None or an
\* error, and is never left waiting for the shutdown.
C21_V4Terminates ==
    (pc = "stream_v4" /\ ~shutdown) => ENABLED TaskV4

\* C22: in launch_stream_v4 the heights are committed in increasing order
\* without a gap from the start of the range, and at most one
\* execute_and_commit is outstanding.
C22_V4InOrderOneAtATime ==
    (pc = "stream_v4" /\ hq = <<>>) =>
        /\ commits = Run(range[1], Len(commits))
        /\ Len(Detached(tq)) <= 1

\* C23: in launch_stream_v4 only a successful execute_and_commit is counted,
\* and a run that ended without the shutdown returns the number of heights
\* it committed.
C23_V4CountsCommits ==
    (pc \in {"stream_v4", "returned"}) =>
        /\ count <= Cardinality(Good)
        /\ (pc = "returned" /\ ~shutdown) => count = Cardinality(Good)

\* C24: in launch_stream_v3, once a height h has yielded None or an error,
\* no height above h is executed or committed in that cycle.
C24_V3FailureCloses ==
    \A h \in Heights :
        (range # None /\ outcome[h] \in BadOutcomes) =>
            \A x \in Elems(execs) \cup Elems(commits) : x <= h

\* C25: in launch_stream_v3 the count returned is the number of heights
\* committed, which are the first heights of the range, so that the failed
\* suffix recorded starts at the first height not committed.
C25_V3CountIsCommits ==
    StreamReturned =>
        /\ count = Len(commits)
        /\ commits = Run(range[1], count)
        /\ (Recorded /\ Len(commits) < RangeLen(range)) =>
               failedCalls = << <<range[1] + Len(commits), range[2]>> >>

\* The calls of get_sealed_block_header that have not returned.
HeaderFetches ==
    Len(SelectSeq(tq, LAMBDA t : t.st \in {"hdr", "pending"}))
        + Len(SelectSeq(hq, LAMBDA t : t.st \in {"hdr", "pending"}))

\* C26: in launch_stream_v2 at most max_get_header_requests calls of
\* get_sealed_block_header are in flight at any instant.
C26_V2HeaderBound == HeaderFetches <= params.max_get_header_requests

\* C27: when the stream returned an error, the step that records the failed
\* suffix is the step in which import returns Err: the cycle does not enter
\* the wait and the stored permit is untouched, and it is still stored when
\* the next call of import starts.
C27_ErrorReturnsAtOnce ==
    /\ [][pc = "returned" /\ IsErr(result) /\ pc' # pc =>
              /\ pc' = "idle" /\ ret' = "err"
              /\ notify' = notify
              /\ failedCalls' = << <<range[1] + count, range[2]>> >>]_vars
    /\ [](pc = "wait" /\ range # None => ~IsErr(result))
    /\ [][pc = "idle" /\ ret = "err" /\ notify = 1 => notify' = 1]_vars

\* import returned the error of its stream and a permit stored during the
\* cycle is still there.
C27_Witness ==
    /\ pc = "idle" /\ ret = "err"
    /\ notify = 1
    /\ failedCalls # <<>>
    /\ commits # <<>>

\* The lowest height of the range at which a call did not succeed, or the
\* height after the range when there is none.
FirstBad ==
    IF \E h \in Heights : LowestBad(h)
    THEN CHOOSE h \in Heights : LowestBad(h)
    ELSE range[2] + 1

\* C28: with no shutdown, what a cycle of launch_stream returns, commits and
\* records is a function of the range and of the outcome of each height,
\* whatever the order in which the answers arrived: it is fixed by the
\* lowest height that yielded None or an error.
C28_Deterministic ==
    (Recorded /\ ~shutdown) =>
        /\ count = FirstBad - range[1]
        /\ commits = Run(range[1], FirstBad - range[1])
        /\ result = IF FirstBad > range[2] \/ outcome[FirstBad] \in NoneOutcomes
                    THEN Ok
                    ELSE Err(outcome[FirstBad], FirstBad)
        /\ failedCalls = IF FirstBad > range[2] THEN <<>>
                         ELSE << <<FirstBad, range[2]>> >>

\* A cycle ended at the second height of its range although the third height
\* had failed before it.
C28_Witness ==
    /\ Recorded /\ ~shutdown
    /\ range = <<1, 3>>
    /\ FirstBad = 2
    /\ outcome[3] \in BadOutcomes
    /\ outcome[3] # outcome[2]

====
